---- MODULE Spec2Model ----
(***************************************************************************)
(* Model of common/types.go (efsn): the fixed-length identifiers Hash and  *)
(* Address, the Check methods of the native-call parameters, and the       *)
(* DeepCopy / Delete / Swap helpers of Asset and TicketSlice.              *)
(*                                                                         *)
(* Conventions                                                             *)
(*  - A uint64 is four 16-bit limbs, most significant first, so that Go's  *)
(*    wrapping 64-bit arithmetic is computed exactly.  An int64 is held as *)
(*    its two's-complement bit pattern in the same form.                   *)
(*  - A string is modelled by its length in bytes: the Check methods read  *)
(*    nothing else of a string, and DeepCopy only copies it.               *)
(*  - In the Check methods a *big.Int is [set, val]: set = FALSE is the    *)
(*    nil pointer, val the (arbitrary precision) integer.                  *)
(*  - For the copy helpers a *big.Int is an address into the heap `ints`   *)
(*    of big.Int structs {neg, abs}; abs is a slice header (arr, len) over *)
(*    a backing array of words in the heap `words`.                        *)
(*  - An error result is the name of the fmt.Errorf branch taken, "nil"    *)
(*    for no error.  The unused blockNumber parameter is left out.         *)
(***************************************************************************)
EXTENDS Integers, Sequences, FiniteSets, TLC

VARIABLES
    call,       \* the last call made: its name, its arguments, its result
    swap,       \* the Swap record the ledger stores, [set |-> FALSE] if none
    now,        \* the latest block timestamp handed to the swap checks
    expired,    \* history: the stored swap has been seen expired
    offered,    \* history: the SwapSize the stored swap was made with
    taken,      \* history: the sum of the Sizes of the Takes accepted so far
    ints,       \* heap of big.Int structs: address -> [neg, arr, len]
    words,      \* heap of nat backing arrays: address -> sequence of words
    asset,      \* the Asset a
    assetCopy,  \* the Asset c returned by a.DeepCopy(), [set |-> FALSE] before
    tarrs,      \* heap of []Ticket backing arrays: address -> sequence of Ticket
    s,          \* the caller's TicketSlice header [arr, len]
    c,          \* the header returned by s.DeepCopy(), [set |-> FALSE] before
    r,          \* the header returned by s.Delete(tid), [set |-> FALSE] before
    steps       \* number of mutating calls made so far

vars == <<call, swap, now, expired, offered, taken, ints, words, asset, assetCopy, tarrs, s, c, r, steps>>

swapVars == <<swap, now, expired, offered, taken>>
heapVars == <<ints, words>>
assetVars == <<asset, assetCopy>>
ticketVars == <<tarrs, s, c, r>>

NoCall == [op |-> "none"]
None == [set |-> FALSE]

-----------------------------------------------------------------------------
(* uint64 arithmetic on limbs                                              *)

LimbBase == 2^16

\* the uint64 with value n, for 0 <= n < 2^31
U64(n) == <<0, 0, n \div LimbBase, n % LimbBase>>

MaxU64 == <<LimbBase - 1, LimbBase - 1, LimbBase - 1, LimbBase - 1>>

\* x + y as a mathematical integer: five limbs, the first is the carry out
AddWide(x, y) ==
    LET s4 == x[4] + y[4]
        s3 == x[3] + y[3] + (s4 \div LimbBase)
        s2 == x[2] + y[2] + (s3 \div LimbBase)
        s1 == x[1] + y[1] + (s2 \div LimbBase)
    IN  <<s1 \div LimbBase, s1 % LimbBase, s2 % LimbBase, s3 % LimbBase, s4 % LimbBase>>

\* Go's x + y on uint64 (and on int64 bit patterns): the sum modulo 2^64
AddU64(x, y) == Tail(AddWide(x, y))

\* two's complement negation modulo 2^64
NegU64(x) == AddU64([i \in 1..4 |-> LimbBase - 1 - x[i]], U64(1))

SubU64(x, y) == AddU64(x, NegU64(y))

\* lexicographic order on limb sequences of one length = numeric order
RECURSIVE LessLimbs(_, _)
LessLimbs(x, y) ==
    IF x = <<>> THEN FALSE
    ELSE IF Head(x) # Head(y) THEN Head(x) < Head(y)
    ELSE LessLimbs(Tail(x), Tail(y))

LessU64(x, y) == LessLimbs(x, y)
LeqU64(x, y) == ~LessLimbs(y, x)

-----------------------------------------------------------------------------
(* *big.Int as seen by the Check methods                                   *)

NilInt == [set |-> FALSE, val |-> 0]
Big(v) == [set |-> TRUE, val |-> v]

\* common.Big0
Big0 == Big(0)

\* (*big.Int).Cmp
Cmp(x, y) == IF x.val < y.val THEN -1 ELSE IF x.val > y.val THEN 1 ELSE 0

\* new(big.Int).Mul(x, y)
Mul(x, y) == Big(x.val * y.val)

\* len(str)
len(str) == str

-----------------------------------------------------------------------------
(* GenAssetParam.Check                                                     *)

MaxDecimals == 18
MaxDescriptionLen == 1024
MaxNameLen == 128
MaxSymbolLen == 64

\* a slip of the decimals bound: 18 is refused as well
GenAssetParam_Check_Mut(p) ==
    IF len(p.Name) = 0 \/ len(p.Symbol) = 0 \/ ~p.Total.set \/ Cmp(p.Total, Big0) < 0
    THEN "GenAssetFunc name, symbol and total must be set"
    ELSE IF p.Decimals >= MaxDecimals
    THEN "GenAssetFunc decimals must be between 0 and 18"
    ELSE IF len(p.Description) > MaxDescriptionLen
    THEN "GenAsset description length is greater than 1024 chars"
    ELSE IF len(p.Name) > MaxNameLen
    THEN "GenAsset name length is greater than 128 chars"
    ELSE IF len(p.Symbol) > MaxSymbolLen
    THEN "GenAsset symbol length is greater than 64 chars"
    ELSE "nil"

GenAssetParam_Check(p) ==
    IF len(p.Name) = 0 \/ len(p.Symbol) = 0 \/ ~p.Total.set \/ Cmp(p.Total, Big0) < 0
    THEN "GenAssetFunc name, symbol and total must be set"
    ELSE IF p.Decimals > MaxDecimals
    THEN "GenAssetFunc decimals must be between 0 and 18"
    ELSE IF len(p.Description) > MaxDescriptionLen
    THEN "GenAsset description length is greater than 1024 chars"
    ELSE IF len(p.Name) > MaxNameLen
    THEN "GenAsset name length is greater than 128 chars"
    ELSE IF len(p.Symbol) > MaxSymbolLen
    THEN "GenAsset symbol length is greater than 64 chars"
    ELSE "nil"

-----------------------------------------------------------------------------
(* BuyTicketParam.Check                                                    *)

BuyTicketParam_Check(p, timestamp, adjust) ==
    LET start == p.Start
        end == p.End
    IN  IF LeqU64(end, start) \/ LessU64(end, AddU64(start, U64(30 * 24 * 3600)))
        THEN "BuyTicket end must be lower than start + 1 month"
        ELSE IF timestamp # U64(0)
        THEN IF LessU64(AddU64(timestamp, U64(3 * 3600)), start)
             THEN "BuyTicket start must be lower than latest block time + 3 hour"
             ELSE IF LessU64(end, AddU64(timestamp, AddU64(U64(7 * 24 * 3600), adjust)))
             THEN "BuyTicket end must be greater than latest block time + 1 week"
             ELSE "nil"
        ELSE "nil"

-----------------------------------------------------------------------------
(* MakeSwapParam.Check, RecallSwapParam.Check, TakeSwapParam.Check         *)

\* a slip of the expiry bound: an offer ending exactly now is let through
MakeSwapParam_Check_Mut(p, timestamp) ==
    IF ~p.MinFromAmount.set \/ Cmp(p.MinFromAmount, Big0) <= 0
       \/ ~p.MinToAmount.set \/ Cmp(p.MinToAmount, Big0) <= 0
       \/ ~p.SwapSize.set \/ Cmp(p.SwapSize, Big0) <= 0
    THEN "MinFromAmount,MinToAmount and SwapSize must be ge 1"
    ELSE IF len(p.Description) > MaxDescriptionLen
    THEN "MakeSwap description length is greater than 1024 chars"
    ELSE IF Cmp(Mul(p.MinFromAmount, p.SwapSize), Big0) <= 0
    THEN "size * MinFromAmount too large"
    ELSE IF LessU64(p.FromEndTime, p.FromStartTime)
    THEN "MakeSwap FromStartTime > FromEndTime"
    ELSE IF LessU64(p.ToEndTime, p.ToStartTime)
    THEN "MakeSwap ToStartTime > ToEndTime"
    ELSE IF LessU64(p.FromEndTime, timestamp)
    THEN "MakeSwap FromEndTime <= latest blockTime"
    ELSE IF LeqU64(p.ToEndTime, timestamp)
    THEN "MakeSwap ToEndTime <= latest blockTime"
    ELSE "nil"

MakeSwapParam_Check(p, timestamp) ==
    IF ~p.MinFromAmount.set \/ Cmp(p.MinFromAmount, Big0) <= 0
       \/ ~p.MinToAmount.set \/ Cmp(p.MinToAmount, Big0) <= 0
       \/ ~p.SwapSize.set \/ Cmp(p.SwapSize, Big0) <= 0
    THEN "MinFromAmount,MinToAmount and SwapSize must be ge 1"
    ELSE IF len(p.Description) > MaxDescriptionLen
    THEN "MakeSwap description length is greater than 1024 chars"
    ELSE IF Cmp(Mul(p.MinFromAmount, p.SwapSize), Big0) <= 0
    THEN "size * MinFromAmount too large"
    ELSE IF LessU64(p.FromEndTime, p.FromStartTime)
    THEN "MakeSwap FromStartTime > FromEndTime"
    ELSE IF LessU64(p.ToEndTime, p.ToStartTime)
    THEN "MakeSwap ToStartTime > ToEndTime"
    ELSE IF LeqU64(p.FromEndTime, timestamp)
    THEN "MakeSwap FromEndTime <= latest blockTime"
    ELSE IF LeqU64(p.ToEndTime, timestamp)
    THEN "MakeSwap ToEndTime <= latest blockTime"
    ELSE "nil"

RecallSwapParam_Check(sw) ==
    IF ~sw.MinFromAmount.set \/ Cmp(sw.MinFromAmount, Big0) <= 0
    THEN "swap illegal: MinFromAmount must be set and greater than 0"
    ELSE IF ~sw.SwapSize.set \/ Cmp(sw.SwapSize, Big0) <= 0
    THEN "swap illegal: SwapSize must be set and greater than 0"
    ELSE IF Cmp(Mul(sw.MinFromAmount, sw.SwapSize), Big0) <= 0
    THEN "size * minFromAmount too large"
    ELSE "nil"

\* a Take that is not held to what is left of the swap
TakeSwapParam_Check_NoLimit(p, sw, timestamp) ==
    IF ~p.Size.set \/ Cmp(p.Size, Big0) <= 0 \/ ~sw.SwapSize.set
    THEN "Size must be ge 1 and le Swapsize"
    ELSE IF ~sw.MinFromAmount.set \/ Cmp(sw.MinFromAmount, Big0) <= 0
    THEN "MinFromAmount less than  equal to zero"
    ELSE IF ~sw.MinToAmount.set \/ Cmp(sw.MinToAmount, Big0) <= 0
    THEN "MinToAmount less than  equal to zero"
    ELSE IF Cmp(Mul(sw.MinFromAmount, p.Size), Big0) <= 0
    THEN "fromTotal less than  equal to zero"
    ELSE IF Cmp(Mul(sw.MinToAmount, p.Size), Big0) <= 0
    THEN "toTotal less than  equal to zero"
    ELSE IF LeqU64(sw.FromEndTime, timestamp)
    THEN "swap expired: FromEndTime <= latest blockTime"
    ELSE IF LeqU64(sw.ToEndTime, timestamp)
    THEN "swap expired: ToEndTime <= latest blockTime"
    ELSE "nil"

\* a slip of the expiry bound: a swap whose From window ends exactly now is taken
TakeSwapParam_Check_Mut(p, sw, timestamp) ==
    IF ~p.Size.set \/ Cmp(p.Size, Big0) <= 0
       \/ ~sw.SwapSize.set \/ Cmp(p.Size, sw.SwapSize) > 0
    THEN "Size must be ge 1 and le Swapsize"
    ELSE IF ~sw.MinFromAmount.set \/ Cmp(sw.MinFromAmount, Big0) <= 0
    THEN "MinFromAmount less than  equal to zero"
    ELSE IF ~sw.MinToAmount.set \/ Cmp(sw.MinToAmount, Big0) <= 0
    THEN "MinToAmount less than  equal to zero"
    ELSE IF Cmp(Mul(sw.MinFromAmount, p.Size), Big0) <= 0
    THEN "fromTotal less than  equal to zero"
    ELSE IF Cmp(Mul(sw.MinToAmount, p.Size), Big0) <= 0
    THEN "toTotal less than  equal to zero"
    ELSE IF LessU64(sw.FromEndTime, timestamp)
    THEN "swap expired: FromEndTime <= latest blockTime"
    ELSE IF LeqU64(sw.ToEndTime, timestamp)
    THEN "swap expired: ToEndTime <= latest blockTime"
    ELSE "nil"

TakeSwapParam_Check(p, sw, timestamp) ==
    IF ~p.Size.set \/ Cmp(p.Size, Big0) <= 0
       \/ ~sw.SwapSize.set \/ Cmp(p.Size, sw.SwapSize) > 0
    THEN "Size must be ge 1 and le Swapsize"
    ELSE IF ~sw.MinFromAmount.set \/ Cmp(sw.MinFromAmount, Big0) <= 0
    THEN "MinFromAmount less than  equal to zero"
    ELSE IF ~sw.MinToAmount.set \/ Cmp(sw.MinToAmount, Big0) <= 0
    THEN "MinToAmount less than  equal to zero"
    ELSE IF Cmp(Mul(sw.MinFromAmount, p.Size), Big0) <= 0
    THEN "fromTotal less than  equal to zero"
    ELSE IF Cmp(Mul(sw.MinToAmount, p.Size), Big0) <= 0
    THEN "toTotal less than  equal to zero"
    ELSE IF LeqU64(sw.FromEndTime, timestamp)
    THEN "swap expired: FromEndTime <= latest blockTime"
    ELSE IF LeqU64(sw.ToEndTime, timestamp)
    THEN "swap expired: ToEndTime <= latest blockTime"
    ELSE "nil"

-----------------------------------------------------------------------------
(* SendAssetParam.Check and the envelope FSNCallParam.Check                *)

\* FSNCallFunc values of the two operation kinds carried below
GenAssetFunc == 1
SendAssetFunc == 2

\* an Address is modelled by a number, 0 the zero address Address{}
SendAssetParam_Check(p) ==
    IF ~p.Value.set \/ Cmp(p.Value, Big0) <= 0
    THEN "Value must be set and greater than 0"
    ELSE IF p.To = 0
    THEN "receiver address must be set and not zero address"
    ELSE "nil"

\* the Check of the sub-parameter an envelope carries; Data is held decoded
CarriedCheck(p) ==
    IF p.Func = GenAssetFunc THEN GenAssetParam_Check(p.Data)
    ELSE SendAssetParam_Check(p.Data)

\* an envelope that hands the verdict of the carried sub-parameter on
FSNCallParam_Check_Mut(p) == CarriedCheck(p)

\* (p *FSNCallParam) Check(blockNumber): return nil
FSNCallParam_Check(p) == "nil"

-----------------------------------------------------------------------------
(* Hash.SetBytes, Address.SetBytes and their constructors                  *)

HashLength == 32
AddressLength == 20

\* b[len(b)-n:]
LastBytes(b, n) == SubSeq(b, Len(b) - n + 1, Len(b))

\* a slip of the crop: the first n bytes are kept instead of the last
SetBytes_Mut(h, b, n) ==
    LET bb == IF Len(b) > Len(h) THEN SubSeq(b, 1, n) ELSE b
        off == n - Len(bb)
    IN  [i \in 1..Len(h) |-> IF i > off THEN bb[i - off] ELSE h[i]]

\* (h *Hash) SetBytes(b) with n = HashLength, (a *Address) SetBytes(b) with
\* n = AddressLength: the array h after the call.  copy(h[n-len(b):], b)
\* writes len(b) bytes from index n-len(b) on and leaves the others as they were.
SetBytes(h, b, n) ==
    LET bb == IF Len(b) > Len(h) THEN LastBytes(b, n) ELSE b
        off == n - Len(bb)
    IN  [i \in 1..Len(h) |-> IF i > off THEN bb[i - off] ELSE h[i]]

\* var h Hash / var a Address: the zero array
ZeroBytes(n) == [i \in 1..n |-> 0]

BytesToHash(b) == SetBytes(ZeroBytes(HashLength), b, HashLength)
BytesToAddress(b) == SetBytes(ZeroBytes(AddressLength), b, AddressLength)

\* (h Hash) Bytes() and (a Address) Bytes(): h[:], the whole array as a slice
Bytes(h) == SubSeq(h, 1, Len(h))

-----------------------------------------------------------------------------
(* Inputs of the validation and identifier calls                           *)

MaxAmount == 2      \* amounts range over nil and -1..MaxAmount
MaxTime == 2        \* swap times and block timestamps range over 0..MaxTime
MaxOffset == 1      \* ticket times lie within MaxOffset of the anchors
MaxBytesLen == 41   \* byte sequences have 0..MaxBytesLen bytes
MaxPattern == 2     \* byte i of pattern k is (i * k) % 256

AmountSamples == {NilInt} \cup {Big(v) : v \in -1..MaxAmount}
TimeSamples == {U64(t) : t \in 0..MaxTime}

MinInt64 == <<2^15, 0, 0, 0>>
MaxInt64 == <<2^15 - 1, LimbBase - 1, LimbBase - 1, LimbBase - 1>>

Near(S) == {AddU64(a, U64(o)) : a \in S, o \in 0..MaxOffset}
               \cup {SubU64(a, U64(o)) : a \in S, o \in 0..MaxOffset}

TicketAnchors ==
    {U64(0), U64(3 * 3600), U64(7 * 24 * 3600), U64(30 * 24 * 3600),
     MinInt64, NegU64(U64(30 * 24 * 3600))}
TicketTimes == Near(TicketAnchors)
BlockTimes == {U64(0), U64(1), U64(3 * 3600), NegU64(U64(3 * 3600)), MaxU64}
AdjustSamples ==
    {U64(0), U64(1), NegU64(U64(1)), NegU64(U64(7 * 24 * 3600 + 2)), MinInt64, MaxInt64}

BytesSamples ==
    {[i \in 1..n |-> (i * k) % 256] : n \in 0..MaxBytesLen, k \in 0..MaxPattern}

-----------------------------------------------------------------------------
(* The validation gate and the identifier constructors, one call each      *)

Idle == call = NoCall

GenAssetCheck ==
    /\ Idle
    /\ \E n \in {0, 1, MaxNameLen, MaxNameLen + 1},
          sy \in {0, 1, MaxSymbolLen, MaxSymbolLen + 1},
          d \in {0, MaxDecimals, MaxDecimals + 1, 255},
          tot \in AmountSamples,
          cc \in BOOLEAN,
          ds \in {0, MaxDescriptionLen, MaxDescriptionLen + 1} :
        LET p == [Name |-> n, Symbol |-> sy, Decimals |-> d, Total |-> tot,
                  CanChange |-> cc, Description |-> ds]
        IN  call' = [op |-> "GenAssetParam.Check", p |-> p,
                     err |-> GenAssetParam_Check(p)]
    /\ UNCHANGED <<swapVars, heapVars, assetVars, ticketVars, steps>>

BuyTicketCheck ==
    /\ Idle
    /\ \E start \in TicketTimes, timestamp \in BlockTimes, adjust \in AdjustSamples :
        \E end \in TicketTimes
                    \cup Near({AddU64(start, U64(30 * 24 * 3600)),
                               AddU64(timestamp, AddU64(U64(7 * 24 * 3600), adjust))}) :
            LET p == [Start |-> start, End |-> end]
            IN  call' = [op |-> "BuyTicketParam.Check", p |-> p,
                         timestamp |-> timestamp, adjust |-> adjust,
                         err |-> BuyTicketParam_Check(p, timestamp, adjust)]
    /\ UNCHANGED <<swapVars, heapVars, assetVars, ticketVars, steps>>

MakeSwapCheck ==
    /\ Idle
    /\ \E mf \in AmountSamples, mt \in AmountSamples, sz \in AmountSamples,
          fs \in TimeSamples, fe \in TimeSamples, ts \in TimeSamples, te \in TimeSamples,
          timestamp \in TimeSamples,
          ds \in {0, MaxDescriptionLen + 1} :
        LET p == [FromStartTime |-> fs, FromEndTime |-> fe, MinFromAmount |-> mf,
                  ToStartTime |-> ts, ToEndTime |-> te, MinToAmount |-> mt,
                  SwapSize |-> sz, Description |-> ds]
        IN  call' = [op |-> "MakeSwapParam.Check", p |-> p, timestamp |-> timestamp,
                     err |-> MakeSwapParam_Check(p, timestamp)]
    /\ UNCHANGED <<swapVars, heapVars, assetVars, ticketVars, steps>>

TakeSwapCheck ==
    /\ Idle
    /\ \E size \in AmountSamples, mf \in AmountSamples, mt \in AmountSamples,
          sz \in AmountSamples, fe \in TimeSamples, te \in TimeSamples,
          timestamp \in TimeSamples :
        LET p == [Size |-> size]
            sw == [FromStartTime |-> U64(0), FromEndTime |-> fe, MinFromAmount |-> mf,
                   ToStartTime |-> U64(0), ToEndTime |-> te, MinToAmount |-> mt,
                   SwapSize |-> sz, Description |-> 0]
        IN  call' = [op |-> "TakeSwapParam.Check", p |-> p, swap |-> sw,
                     timestamp |-> timestamp,
                     err |-> TakeSwapParam_Check(p, sw, timestamp)]
    /\ UNCHANGED <<swapVars, heapVars, assetVars, ticketVars, steps>>

BytesToHashCall ==
    /\ Idle
    /\ \E b \in BytesSamples :
        call' = [op |-> "BytesToHash", b |-> b, h |-> BytesToHash(b)]
    /\ UNCHANGED <<swapVars, heapVars, assetVars, ticketVars, steps>>

BytesToAddressCall ==
    /\ Idle
    /\ \E b \in BytesSamples :
        call' = [op |-> "BytesToAddress", b |-> b, h |-> BytesToAddress(b)]
    /\ UNCHANGED <<swapVars, heapVars, assetVars, ticketVars, steps>>

\* the envelope's Check on a GenAsset or a SendAsset payload; the call also
\* records what the Check of the payload itself returns
FSNCallCheck ==
    /\ Idle
    /\ \E f \in {GenAssetFunc, SendAssetFunc} :
        \E d \in IF f = GenAssetFunc
                 THEN {[Name |-> n, Symbol |-> 1, Decimals |-> d8, Total |-> tot,
                        CanChange |-> FALSE, Description |-> ds] :
                          n \in {0, 1, MaxNameLen + 1},
                          d8 \in {MaxDecimals, MaxDecimals + 1},
                          tot \in AmountSamples,
                          ds \in {0, MaxDescriptionLen + 1}}
                 ELSE {[AssetID |-> 1, To |-> to, Value |-> v] :
                          to \in {0, 1}, v \in AmountSamples} :
            LET p == [Func |-> f, Data |-> d]
            IN  call' = [op |-> "FSNCallParam.Check", p |-> p,
                         err |-> FSNCallParam_Check(p),
                         carried |-> CarriedCheck(p)]
    /\ UNCHANGED <<swapVars, heapVars, assetVars, ticketVars, steps>>

Init ==
    /\ call = NoCall
    /\ swap = None
    /\ now = U64(0)
    /\ expired = FALSE
    /\ offered = 0
    /\ taken = 0
    /\ ints = <<>>
    /\ words = <<>>
    /\ asset = None
    /\ assetCopy = None
    /\ tarrs = <<>>
    /\ s = None
    /\ c = None
    /\ r = None
    /\ steps = 0

Next ==
    \/ GenAssetCheck
    \/ BuyTicketCheck
    \/ MakeSwapCheck
    \/ TakeSwapCheck
    \/ BytesToHashCall
    \/ BytesToAddressCall
    \/ FSNCallCheck

Spec == Init /\ [][Next]_vars

-----------------------------------------------------------------------------
(* A stored swap over time: Make at the current block, then Take and       *)
(* Recall validations against the stored record as blocks go by            *)

\* the Swap record kept for an accepted MakeSwapParam: the fields of
\* MakeSwapParam under the same names
ToSwap(p) ==
    [set |-> TRUE,
     FromStartTime |-> p.FromStartTime, FromEndTime |-> p.FromEndTime,
     MinFromAmount |-> p.MinFromAmount,
     ToStartTime |-> p.ToStartTime, ToEndTime |-> p.ToEndTime,
     MinToAmount |-> p.MinToAmount,
     SwapSize |-> p.SwapSize, Description |-> p.Description]

\* either window of the stored swap has ended at block time t
Expired(sw, t) == sw.set /\ (LeqU64(sw.FromEndTime, t) \/ LeqU64(sw.ToEndTime, t))

\* a Make is validated against the latest block; a refused one stores nothing
\* and is not repeated within the same block
MakeSwap ==
    /\ ~swap.set
    /\ call.op # "MakeSwap"
    /\ \E mf \in AmountSamples, mt \in AmountSamples, sz \in AmountSamples,
          fs \in TimeSamples, fe \in TimeSamples, ts \in TimeSamples, te \in TimeSamples,
          ds \in {0, MaxDescriptionLen + 1} :
        LET p == [FromStartTime |-> fs, FromEndTime |-> fe, MinFromAmount |-> mf,
                  ToStartTime |-> ts, ToEndTime |-> te, MinToAmount |-> mt,
                  SwapSize |-> sz, Description |-> ds]
            err == MakeSwapParam_Check(p, now)
        IN  /\ call' = [op |-> "MakeSwap", p |-> p, timestamp |-> now, err |-> err]
            /\ swap' = IF err = "nil" THEN ToSwap(p) ELSE swap
            /\ expired' = Expired(swap', now)
            /\ offered' = IF err = "nil" THEN p.SwapSize.val ELSE offered
    /\ UNCHANGED <<now, taken, heapVars, assetVars, ticketVars, steps>>

\* the next block: block timestamps never decrease
AdvanceTime ==
    /\ \E t \in TimeSamples :
        /\ LessU64(now, t)
        /\ now' = t
    /\ call' = [op |-> "AdvanceTime"]
    /\ expired' = (expired \/ Expired(swap, now'))
    /\ UNCHANGED <<swap, offered, taken, heapVars, assetVars, ticketVars, steps>>

TakeSwap ==
    /\ swap.set
    /\ \E size \in AmountSamples :
        LET p == [Size |-> size]
        IN  call' = [op |-> "TakeSwap", p |-> p, timestamp |-> now,
                     err |-> TakeSwapParam_Check(p, swap, now)]
    /\ UNCHANGED <<swapVars, heapVars, assetVars, ticketVars, steps>>

RecallSwap ==
    /\ swap.set
    /\ call' = [op |-> "RecallSwap", err |-> RecallSwapParam_Check(swap)]
    /\ UNCHANGED <<swapVars, heapVars, assetVars, ticketVars, steps>>

NextSwap ==
    \/ MakeSwap
    \/ AdvanceTime
    \/ TakeSwap
    \/ RecallSwap

SpecSwap == Init /\ [][NextSwap]_vars

-----------------------------------------------------------------------------
(* A ledger that settles Takes: a Take accepted by TakeSwapParam.Check     *)
(* reduces the SwapSize of the stored swap by the Size taken               *)

\* a Take validated against the stored swap at the latest block; the call
\* records the SwapSize that was left when the Take came in
LedgerTake ==
    /\ swap.set
    /\ \E size \in AmountSamples :
        LET p == [Size |-> size]
            err == TakeSwapParam_Check(p, swap, now)
        IN  /\ call' = [op |-> "LedgerTake", p |-> p, timestamp |-> now,
                        remaining |-> swap.SwapSize, err |-> err]
            /\ swap' = IF err = "nil"
                       THEN [swap EXCEPT !.SwapSize = Big(swap.SwapSize.val - size.val)]
                       ELSE swap
            /\ taken' = IF err = "nil" THEN taken + size.val ELSE taken
    /\ UNCHANGED <<now, expired, offered, heapVars, assetVars, ticketVars, steps>>

NextLedger ==
    \/ MakeSwap
    \/ AdvanceTime
    \/ LedgerTake

SpecLedger == Init /\ [][NextLedger]_vars

-----------------------------------------------------------------------------
(* The heap of big.Int values                                              *)
(*                                                                         *)
(* A big.Int is the struct {neg bool; abs nat}, nat a slice of words.      *)
(* Copying the struct (x := *p) copies neg and the slice header of abs:    *)
(* the copy reads and writes the same backing array of words.              *)

MaxIntLen == 2      \* an integer has 0..MaxIntLen words
MaxSteps == 2       \* in-place changes made after construction

WordSamples == {1, 2}
WordSeqs == UNION {[1..n -> WordSamples] : n \in 0..MaxIntLen}
IntSamples ==
    {[neg |-> FALSE, abs |-> w] : w \in WordSeqs} \cup {[neg |-> TRUE, abs |-> <<1>>]}

Zeros(n) == [i \in 1..n |-> 0]

\* capacity a fresh nat gets beyond its length: nat.make allocates n or n+4
\* words, depending on n and on the library's version
ExtraCaps == {0, 4}

\* the value of the big.Int at address p: its sign and its words abs[0:len]
IntValue(is, ws, p) ==
    [neg |-> is[p].neg,
     abs |-> IF is[p].arr = 0 THEN <<>> ELSE SubSeq(ws[is[p].arr], 1, is[p].len)]

\* x := *p : a new big.Int struct holding the fields of the one at p
CopyStruct(is, p) == Append(is, is[p])

\* the big.Int at p changed in place to the value x, as (*big.Int).Set and
\* the arithmetic methods do with their receiver: z.abs = z.abs.make(len(x))
\* reuses the backing array when it has the capacity and allocates
\* len(x)+extra words otherwise; then the words are copied and neg is set
SetInt(is, ws, p, x, extra) ==
    LET z == is[p]
        n == Len(x.abs)
        cap == IF z.arr = 0 THEN 0 ELSE Len(ws[z.arr])
    IN  IF n <= cap
        THEN [ints |-> [is EXCEPT ![p] = [neg |-> x.neg, arr |-> z.arr, len |-> n]],
              words |-> IF z.arr = 0 THEN ws
                        ELSE [ws EXCEPT ![z.arr] =
                                 [k \in 1..cap |-> IF k <= n THEN x.abs[k] ELSE @[k]]]]
        ELSE [ints |-> [is EXCEPT ![p] = [neg |-> x.neg, arr |-> Len(ws) + 1, len |-> n]],
              words |-> Append(ws, x.abs \o Zeros(extra))]

\* a heap holding the given values at addresses 1..Len(vals), each in an
\* array of its own with `extra` spare words (the nil slice for zero)
NewInts(vals, extra) ==
    [ints |-> [i \in 1..Len(vals) |->
                  [neg |-> vals[i].neg,
                   arr |-> IF vals[i].abs = <<>> THEN 0 ELSE i,
                   len |-> Len(vals[i].abs)]],
     words |-> [i \in 1..Len(vals) |-> vals[i].abs \o Zeros(extra)]]

-----------------------------------------------------------------------------
(* Asset.DeepCopy                                                          *)

\* (u *Asset) DeepCopy(): the heap after total := *u.Total and the Asset
\* returned, whose Total is &total; Description is not named in the literal
\* and is the empty string
Asset_DeepCopy(is, u) ==
    [ints |-> CopyStruct(is, u.Total),
     ret |-> [set |-> TRUE,
              ID |-> u.ID,
              Owner |-> u.Owner,
              Name |-> u.Name,
              Symbol |-> u.Symbol,
              Decimals |-> u.Decimals,
              Total |-> Len(is) + 1,
              CanChange |-> u.CanChange,
              Description |-> 0]]

InitAsset ==
    /\ call = NoCall
    /\ swap = None
    /\ now = U64(0)
    /\ expired = FALSE
    /\ offered = 0
    /\ taken = 0
    /\ \E v \in IntSamples, extra \in ExtraCaps :
        /\ ints = NewInts(<<v>>, extra).ints
        /\ words = NewInts(<<v>>, extra).words
    /\ \E cc \in BOOLEAN, ds \in {0, 18} :
        asset = [set |-> TRUE, ID |-> 1, Owner |-> 1, Name |-> 6, Symbol |-> 3,
                 Decimals |-> 18, Total |-> 1, CanChange |-> cc, Description |-> ds]
    /\ assetCopy = None
    /\ tarrs = <<>>
    /\ s = None
    /\ c = None
    /\ r = None
    /\ steps = 0

\* c := a.DeepCopy()
AssetDeepCopy ==
    /\ ~assetCopy.set
    /\ LET res == Asset_DeepCopy(ints, asset)
       IN  /\ ints' = res.ints
           /\ assetCopy' = res.ret
    /\ call' = [op |-> "Asset.DeepCopy"]
    /\ UNCHANGED <<swapVars, words, asset, ticketVars, steps>>

\* an in-place change of a.Total (via = "a") or of c.Total (via = "c"); the
\* call records the two values read just before it
SetTotal ==
    /\ steps < MaxSteps
    /\ \E via \in {"a", "c"}, x \in IntSamples, extra \in ExtraCaps :
        /\ via = "c" => assetCopy.set
        /\ LET p == IF via = "a" THEN asset.Total ELSE assetCopy.Total
               res == SetInt(ints, words, p, x, extra)
           IN  /\ ints' = res.ints
               /\ words' = res.words
        /\ call' = [op |-> "Total.Set", via |-> via, x |-> x,
                    aBefore |-> IntValue(ints, words, asset.Total),
                    cBefore |-> IF assetCopy.set
                                THEN IntValue(ints, words, assetCopy.Total)
                                ELSE None]
    /\ steps' = steps + 1
    /\ UNCHANGED <<swapVars, assetVars, ticketVars>>

NextAsset ==
    \/ AssetDeepCopy
    \/ SetTotal

SpecAsset == InitAsset /\ [][NextAsset]_vars

-----------------------------------------------------------------------------
(* TicketSlice: a slice header (arr, len) over a backing array of Ticket   *)
(* structs; a Ticket holds its Height, Value and weight as *big.Int        *)

MaxTickets == 3     \* a collection has 0..MaxTickets tickets
MaxID == 2          \* ticket IDs range over 1..MaxID

\* the zero Ticket, in the unused capacity of a backing array
ZeroTicket ==
    [ID |-> 0, Owner |-> 0, Height |-> 0, StartTime |-> 0, ExpireTime |-> 0,
     Value |-> 0, weight |-> 0]

NilSlice == [set |-> TRUE, arr |-> 0, len |-> 0]

\* s[0:len(s)]
Elems(ts, sl) == IF sl.arr = 0 THEN <<>> ELSE SubSeq(ts[sl.arr], 1, sl.len)

\* (s TicketSlice) DeepCopy(): nil for an empty s; otherwise a new backing
\* array r of capacity len(s) to which each Ticket struct t of s is appended
\* as it is, its three *big.Int fields included
TicketSlice_DeepCopy(ts, sl) ==
    IF sl.arr = 0 \/ sl.len = 0
    THEN [tarrs |-> ts, ret |-> NilSlice]
    ELSE [tarrs |-> Append(ts, Elems(ts, sl)),
          ret |-> [set |-> TRUE, arr |-> Len(ts) + 1, len |-> sl.len]]

\* (s TicketSlice) Swap(i, j), indices from 1
TicketSlice_Swap(ts, sl, i, j) ==
    [ts EXCEPT ![sl.arr] = [@ EXCEPT ![i] = ts[sl.arr][j], ![j] = ts[sl.arr][i]]]

\* the indices of the tickets of s whose ID is tid
Matches(ts, sl, tid) == {k \in 1..sl.len : Elems(ts, sl)[k].ID = tid}

Min(S) == CHOOSE k \in S : \A j \in S : k <= j
Max(S) == CHOOSE k \in S : \A j \in S : k >= j

\* append(s[:i], s[i+1:]...) at the (1-based) index i: the tickets after i
\* move one place down inside the backing array of s, whose last used place
\* keeps its old ticket; the header returned is one shorter
RemoveAt(ts, sl, i) ==
    [tarrs |-> [ts EXCEPT ![sl.arr] =
                   [k \in 1..Len(@) |-> IF k >= i /\ k < sl.len THEN @[k + 1] ELSE @[k]]],
     ret |-> [set |-> TRUE, arr |-> sl.arr, len |-> sl.len - 1]]

\* a slip of the loop: the last ticket with the ID is removed, not the first
TicketSlice_Delete_Mut(ts, sl, tid) ==
    IF Matches(ts, sl, tid) = {}
    THEN [tarrs |-> ts, ret |-> [set |-> TRUE, arr |-> sl.arr, len |-> sl.len]]
    ELSE RemoveAt(ts, sl, Max(Matches(ts, sl, tid)))

\* (s TicketSlice) Delete(tid): the loop stops at the first ticket whose ID
\* is tid and removes it; s is returned as it is when there is none
TicketSlice_Delete(ts, sl, tid) ==
    IF Matches(ts, sl, tid) = {}
    THEN [tarrs |-> ts, ret |-> [set |-> TRUE, arr |-> sl.arr, len |-> sl.len]]
    ELSE RemoveAt(ts, sl, Min(Matches(ts, sl, tid)))

\* what a reader of the collection sees: each ticket with the values of its
\* integers
DeepValue(is, ws, ts, sl) ==
    [k \in 1..sl.len |->
        LET t == Elems(ts, sl)[k]
        IN  [ID |-> t.ID, Owner |-> t.Owner,
             Height |-> IntValue(is, ws, t.Height),
             StartTime |-> t.StartTime, ExpireTime |-> t.ExpireTime,
             Value |-> IntValue(is, ws, t.Value),
             weight |-> IF t.weight = 0 THEN None ELSE IntValue(is, ws, t.weight)]]

\* ticket i of a fresh collection: its integers are at addresses of its own
NewTicket(i, id, withWeight) ==
    [ID |-> id, Owner |-> 1, Height |-> 3 * i - 2, StartTime |-> 10, ExpireTime |-> 40,
     Value |-> 3 * i - 1, weight |-> IF withWeight THEN 3 * i ELSE 0]

InitTickets ==
    /\ call = NoCall
    /\ swap = None
    /\ now = U64(0)
    /\ expired = FALSE
    /\ offered = 0
    /\ taken = 0
    /\ asset = None
    /\ assetCopy = None
    /\ \E ids \in UNION {[1..n -> 1..MaxID] : n \in 0..MaxTickets},
          withWeight \in BOOLEAN, spare \in {0, 1}, extra \in ExtraCaps :
        LET n == Len(ids)
            heap == NewInts([k \in 1..3 * n |-> [neg |-> FALSE, abs |-> <<1>>]], extra)
        IN  /\ ints = heap.ints
            /\ words = heap.words
            /\ IF n + spare = 0
               THEN tarrs = <<>> /\ s = NilSlice
               ELSE /\ tarrs = <<[i \in 1..n |-> NewTicket(i, ids[i], withWeight)]
                                    \o [i \in 1..spare |-> ZeroTicket]>>
                    /\ s = [set |-> TRUE, arr |-> 1, len |-> n]
    /\ c = None
    /\ r = None
    /\ steps = 0

\* c := s.DeepCopy()
TicketSliceDeepCopy ==
    /\ ~c.set
    /\ LET res == TicketSlice_DeepCopy(tarrs, s)
       IN  /\ tarrs' = res.tarrs
           /\ c' = res.ret
    /\ call' = [op |-> "TicketSlice.DeepCopy"]
    /\ UNCHANGED <<swapVars, heapVars, assetVars, s, r, steps>>

\* the two collections as a reader sees them, recorded by a changing call
Seen(via) ==
    [via |-> via,
     sBefore |-> DeepValue(ints, words, tarrs, s),
     cBefore |-> IF c.set THEN DeepValue(ints, words, tarrs, c) ELSE None]

\* the values written into a ticket's integers: zero, one word, two words
TicketIntSamples ==
    {[neg |-> FALSE, abs |-> w] : w \in {<<>>, <<2>>, <<2, 1>>}}

\* an in-place change of the Height, Value or weight integer of ticket i of
\* s (via = "s") or of c (via = "c")
SetTicketInt ==
    /\ steps < MaxSteps
    /\ \E via \in {"s", "c"}, f \in {"Height", "Value", "weight"},
          x \in TicketIntSamples, extra \in ExtraCaps :
        /\ via = "c" => c.set
        /\ LET sl == IF via = "s" THEN s ELSE c
           IN  \E i \in 1..sl.len :
                LET t == Elems(tarrs, sl)[i]
                    p == IF f = "Height" THEN t.Height
                         ELSE IF f = "Value" THEN t.Value ELSE t.weight
                    res == SetInt(ints, words, p, x, extra)
                IN  /\ p # 0
                    /\ ints' = res.ints
                    /\ words' = res.words
        /\ call' = [op |-> "Ticket.Set"] @@ Seen(via)
    /\ steps' = steps + 1
    /\ UNCHANGED <<swapVars, assetVars, ticketVars>>

\* an in-place change of the sequence: s.Swap(i, j) or c.Swap(i, j)
SwapTickets ==
    /\ steps < MaxSteps
    /\ \E via \in {"s", "c"} :
        /\ via = "c" => c.set
        /\ LET sl == IF via = "s" THEN s ELSE c
           IN  \E i \in 1..sl.len, j \in 1..sl.len :
                /\ i < j
                /\ tarrs' = TicketSlice_Swap(tarrs, sl, i, j)
        /\ call' = [op |-> "TicketSlice.Swap"] @@ Seen(via)
    /\ steps' = steps + 1
    /\ UNCHANGED <<swapVars, heapVars, assetVars, s, c, r>>

NextTicketCopy ==
    \/ TicketSliceDeepCopy
    \/ SetTicketInt
    \/ SwapTickets

SpecTicketCopy == InitTickets /\ [][NextTicketCopy]_vars

\* r := s.Delete(tid); the call records the tickets of s just before it
TicketSliceDelete ==
    /\ ~r.set
    /\ \E tid \in 1..MaxID + 1 :
        LET res == TicketSlice_Delete(tarrs, s, tid)
        IN  /\ tarrs' = res.tarrs
            /\ r' = res.ret
            /\ call' = [op |-> "TicketSlice.Delete", tid |-> tid,
                        before |-> Elems(tarrs, s)]
    /\ UNCHANGED <<swapVars, heapVars, assetVars, s, c, steps>>

NextTicket ==
    \/ TicketSliceDelete

SpecTicket == InitTickets /\ [][NextTicket]_vars

-----------------------------------------------------------------------------
(* Mathematical (unbounded) comparisons used to state the claims           *)

Wide(x) == <<0>> \o x

\* x + y for five-limb numbers whose sum stays below 2^80
AddWide5(x, y) ==
    LET w == AddWide(Tail(x), Tail(y))
    IN  <<x[1] + y[1] + w[1]>> \o Tail(w)

\* an int64 bit pattern denotes a negative number
IsNegative(a) == a[1] >= 2^15

\* x < t + k + a as integers, a an int64 bit pattern, k < 2^31
LessThanSum(x, t, k, a) ==
    IF IsNegative(a)
    THEN LessLimbs(AddWide5(Wide(x), Wide(NegU64(a))), AddWide(t, U64(k)))
    ELSE LessLimbs(Wide(x), AddWide5(AddWide(t, U64(k)), Wide(a)))

-----------------------------------------------------------------------------
(* Claims                                                                  *)

IsGenAsset == call.op = "GenAssetParam.Check"
IsBuyTicket == call.op = "BuyTicketParam.Check"
IsMakeSwap == call.op = "MakeSwapParam.Check"
IsTakeSwap == call.op = "TakeSwapParam.Check"

\* C1 as stated: GenAssetParam.Check fails exactly when Name or Symbol is
\* empty, Total is unset or Total <= 0, Decimals > 18, Description is longer
\* than 1024, Name longer than 128 or Symbol longer than 64.
C1_TotalZeroRejected ==
    IsGenAsset =>
        LET p == call.p
        IN  (call.err # "nil") <=>
                \/ p.Name = 0 \/ p.Symbol = 0
                \/ ~p.Total.set \/ p.Total.val <= 0
                \/ p.Decimals > 18
                \/ p.Description > 1024
                \/ p.Name > 128
                \/ p.Symbol > 64

\* C1 amended: GenAssetParam.Check fails exactly when Name or Symbol is
\* empty, Total is unset or Total < 0, Decimals > 18, Description is longer
\* than 1024, Name longer than 128 or Symbol longer than 64; Total = 0 is
\* accepted.
C1_GenAssetCheck ==
    IsGenAsset =>
        LET p == call.p
        IN  (call.err # "nil") <=>
                \/ p.Name = 0 \/ p.Symbol = 0
                \/ ~p.Total.set \/ p.Total.val < 0
                \/ p.Decimals > 18
                \/ p.Description > 1024
                \/ p.Name > 128
                \/ p.Symbol > 64

\* C1 witness: Name "X", Symbol "X", Decimals 18, Total 0 has been accepted.
C1_Witness ==
    /\ IsGenAsset
    /\ call.p.Name = 1 /\ call.p.Symbol = 1 /\ call.p.Decimals = 18
    /\ call.p.Total = Big(0)
    /\ call.err = "nil"

\* C2: BuyTicketParam.Check fails whenever End <= Start or End < Start + 30
\* days, the sum taken as a mathematical integer; with blockTimestamp = 0,
\* End = Start + 30 days is accepted.
C2_MinimumLifetime ==
    IsBuyTicket =>
        LET p == call.p
            limit == AddWide(p.Start, U64(2592000))
        IN  /\ (LeqU64(p.End, p.Start) \/ LessLimbs(Wide(p.End), limit))
                => call.err # "nil"
            /\ (call.timestamp = U64(0) /\ Wide(p.End) = limit)
                => call.err = "nil"

\* the 30-day lifetime rule, on mathematical integers
LifetimeOk(p) ==
    /\ LessU64(p.Start, p.End)
    /\ ~LessLimbs(Wide(p.End), AddWide(p.Start, U64(2592000)))

\* C3: for a BuyTicketParam that passes the lifetime rule, when
\* blockTimestamp != 0 Check fails exactly when Start > blockTimestamp + 3
\* hours or End < blockTimestamp + 7 days + adjustSeconds (sums taken as
\* mathematical integers); when blockTimestamp = 0 it succeeds.
C3_FutureAndExpiry ==
    (IsBuyTicket /\ LifetimeOk(call.p)) =>
        LET p == call.p
            t == call.timestamp
        IN  IF t # U64(0)
            THEN (call.err # "nil") <=>
                    \/ LessLimbs(AddWide(t, U64(10800)), Wide(p.Start))
                    \/ LessThanSum(p.End, t, 604800, call.adjust)
            ELSE call.err = "nil"

\* C4: MakeSwapParam.Check accepts at block timestamp T exactly the
\* parameters with MinFromAmount, MinToAmount, SwapSize > 0, MinFromAmount *
\* SwapSize > 0, Description length <= 1024, FromStartTime <= FromEndTime,
\* ToStartTime <= ToEndTime, FromEndTime > T and ToEndTime > T.
C4_MakeSwapCheck ==
    IsMakeSwap =>
        LET p == call.p
            T == call.timestamp
        IN  (call.err = "nil") <=>
                /\ p.MinFromAmount.set /\ p.MinFromAmount.val > 0
                /\ p.MinToAmount.set /\ p.MinToAmount.val > 0
                /\ p.SwapSize.set /\ p.SwapSize.val > 0
                /\ p.MinFromAmount.val * p.SwapSize.val > 0
                /\ p.Description <= 1024
                /\ LeqU64(p.FromStartTime, p.FromEndTime)
                /\ LeqU64(p.ToStartTime, p.ToEndTime)
                /\ LessU64(T, p.FromEndTime)
                /\ LessU64(T, p.ToEndTime)

\* C4 witness: an offer whose windows opened before T and end after T has
\* been accepted.
C4_Witness ==
    /\ IsMakeSwap
    /\ call.err = "nil"
    /\ LessU64(call.p.FromStartTime, call.timestamp)
    /\ LessU64(call.p.ToStartTime, call.timestamp)

\* C5: TakeSwapParam.Check succeeds exactly when 0 < Size <= swap.SwapSize,
\* swap.MinFromAmount > 0, swap.MinToAmount > 0, swap.FromEndTime > T and
\* swap.ToEndTime > T; an unset Size fails.
C5_TakeSwapCheck ==
    IsTakeSwap =>
        LET p == call.p
            sw == call.swap
            T == call.timestamp
        IN  (call.err = "nil") <=>
                /\ p.Size.set /\ sw.SwapSize.set
                /\ 0 < p.Size.val /\ p.Size.val <= sw.SwapSize.val
                /\ sw.MinFromAmount.set /\ sw.MinFromAmount.val > 0
                /\ sw.MinToAmount.set /\ sw.MinToAmount.val > 0
                /\ LessU64(T, sw.FromEndTime)
                /\ LessU64(T, sw.ToEndTime)

\* C5 witness: a full take (Size = SwapSize > 1) of an unexpired swap has
\* been accepted.
C5_Witness ==
    /\ IsTakeSwap
    /\ call.err = "nil"
    /\ call.p.Size = call.swap.SwapSize
    /\ call.p.Size.val > 1

C6_TakeAndRecallFail ==
    (expired /\ call.op \in {"TakeSwap", "RecallSwap"}) => call.err # "nil"

\* C6 amended: once the stored swap is expired (its FromEndTime or its
\* ToEndTime is <= the block timestamp), validation of every further Take of
\* it fails, at that block and at every later one.
C6_TakeFailsOnceExpired ==
    /\ expired => Expired(swap, now)
    /\ (expired /\ call.op = "TakeSwap") => call.err # "nil"

\* C6 witness: a Take of a legal size was refused only because the swap had
\* expired before.
C6_Witness ==
    /\ expired
    /\ call.op = "TakeSwap"
    /\ call.p.Size = swap.SwapSize
    /\ call.err \in {"swap expired: FromEndTime <= latest blockTime",
                     "swap expired: ToEndTime <= latest blockTime"}

\* C8: after c := a.DeepCopy(), no in-place change of c.Total changes the
\* value of a.Total, and no in-place change of a.Total changes the value of
\* c.Total.
C8_TotalIndependent ==
    (assetCopy.set /\ call.op = "Total.Set") =>
        /\ call.via = "c" => IntValue(ints, words, asset.Total) = call.aBefore
        /\ call.via = "a" => IntValue(ints, words, assetCopy.Total) = call.cBefore

\* C7: after c := s.DeepCopy(), no in-place change to a ticket of c (its
\* Height, Value or weight integer) or to the sequence c is observable
\* through s, and no such change to s is observable through c.
C7_DeepCopyIndependent ==
    (c.set /\ call.op \in {"Ticket.Set", "TicketSlice.Swap"}) =>
        /\ call.via = "c" => DeepValue(ints, words, tarrs, s) = call.sBefore
        /\ call.via = "s" => DeepValue(ints, words, tarrs, c) = call.cBefore

\* the tickets `before` without the first one whose ID is tid
WithoutFirst(before, tid) ==
    LET hits == {k \in 1..Len(before) : before[k].ID = tid}
    IN  IF hits = {} THEN before
        ELSE LET i == CHOOSE k \in hits : \A j \in hits : k <= j
             IN  [k \in 1..Len(before) - 1 |-> IF k < i THEN before[k] ELSE before[k + 1]]

\* C9: TicketSlice.Delete(id) returns the collection with only the first
\* ticket whose ID equals id removed and all other tickets in their original
\* relative order; when no ticket has that ID the returned collection equals
\* the input in content and order.
C9_DeleteFirstMatch ==
    call.op = "TicketSlice.Delete" =>
        Elems(tarrs, r) = WithoutFirst(call.before, call.tid)

\* C9 witness: a Delete of an ID that two tickets carry, the first of them
\* not at the head, has returned the collection with the later one kept.
C9_Witness ==
    /\ call.op = "TicketSlice.Delete"
    /\ Len(call.before) = 3
    /\ call.before[1].ID # call.tid
    /\ call.before[2].ID = call.tid
    /\ call.before[3].ID = call.tid
    /\ Elems(tarrs, r) = <<call.before[1], call.before[3]>>

\* C11 as stated: the envelope's validation fails exactly when the
\* validation of the sub-parameter it carries fails.
C11_EnvelopeDelegates ==
    call.op = "FSNCallParam.Check" =>
        ((call.err # "nil") <=> (call.carried # "nil"))

\* C11 amended: FSNCallParam.Check makes no check of its own and never
\* fails, whatever the operation kind and the payload; it does not run the
\* validation of the sub-parameter it carries.
C11_EnvelopeNeverFails ==
    call.op = "FSNCallParam.Check" => call.err = "nil"

\* C11 witness: an envelope whose GenAsset payload fails its own Check has
\* passed the envelope's Check.
C11_Witness ==
    /\ call.op = "FSNCallParam.Check"
    /\ call.p.Func = GenAssetFunc
    /\ call.carried = "GenAssetFunc decimals must be between 0 and 18"
    /\ call.err = "nil"

\* C12: with a ledger that reduces the stored SwapSize by every accepted
\* Size and block timestamps that never decrease, the accepted Sizes sum to
\* at most the SwapSize given at Make, no Take is accepted once nothing is
\* left of the swap, and no Take is accepted at a block timestamp that is
\* >= FromEndTime or >= ToEndTime.
C12_TakesWithinSwapSize ==
    /\ taken <= offered
    /\ swap.set => swap.SwapSize.val = offered - taken
    /\ (call.op = "LedgerTake" /\ call.err = "nil") =>
          /\ Cmp(call.remaining, Big0) > 0
          /\ LessU64(call.timestamp, swap.FromEndTime)
          /\ LessU64(call.timestamp, swap.ToEndTime)

\* C12 witness: a swap made with SwapSize >= 2 has been filled while both of
\* its windows are open, and a further Take of Size 1 has just been refused.
C12_Witness ==
    /\ swap.set
    /\ offered >= 2
    /\ taken = offered
    /\ call.op = "LedgerTake"
    /\ call.remaining = Big0
    /\ call.p.Size = Big(1)
    /\ call.err = "Size must be ge 1 and le Swapsize"
    /\ ~Expired(swap, now)

\* C13: the record returned by a.DeepCopy() has the same ID, Owner, Name,
\* Symbol, Decimals, Total value, CanChange and Description as a.
C13_DeepCopyFaithful ==
    (call.op = "Asset.DeepCopy" /\ assetCopy.set) =>
        /\ assetCopy.ID = asset.ID
        /\ assetCopy.Owner = asset.Owner
        /\ assetCopy.Name = asset.Name
        /\ assetCopy.Symbol = asset.Symbol
        /\ assetCopy.Decimals = asset.Decimals
        /\ IntValue(ints, words, assetCopy.Total) = IntValue(ints, words, asset.Total)
        /\ assetCopy.CanChange = asset.CanChange
        /\ assetCopy.Description = asset.Description

\* C14: after r := s.Delete(id), with id present or absent, s still has the
\* same length and the same tickets in the same order as before the call.
C14_DeleteKeepsCaller ==
    call.op = "TicketSlice.Delete" => Elems(tarrs, s) = call.before

====
